---------------------------- MODULE Spec2Model ----------------------------
(***************************************************************************)
(* CapriAI content pipeline: chunker, change detector, embedding ingest,   *)
(* vector-index upserter and retrieval service, each modelled from its     *)
(* script.  Every stage is a run-to-completion script over files on disk,  *)
(* so the state is the content of those files plus the requests sent to    *)
(* the two hosted services.                                                *)
(*                                                                         *)
(* Text is a TLA+ string; Python slicing text[a:b] is SubSeq(text,a+1,b).  *)
(***************************************************************************)
EXTENDS Integers, Sequences, FiniteSets, TLC

VARIABLES
    \* ---- chunk_text applied to explicit arguments (chunker.py)
    text, size, overlap, chunks, chunked,
    \* ---- change detector (change_detector.py)
    raw_data, state_file, changelog, phase, edits, aborts,
    \* ---- chunker run, embedding ingest, upserter (chunker.py, ingest.py,
    \*      upsert_pinecone.py): files, environment, position in main()
    extracted, chunks_dir, chunker_done, openai_key, pinecone_key,
    ipc, message, all_chunks, batch_no, attempt, attempt_log, sleeps,
    out_lines, embeddings_file,
    up_result, index_exists, index,
    \* ---- retrieval service (retriever_api.py)
    r_request, r_response, r_calls, served

cvars == <<text, size, overlap, chunks, chunked>>
dvars == <<raw_data, state_file, changelog, phase, edits, aborts>>
fvars == <<extracted, chunks_dir, chunker_done, openai_key, pinecone_key>>
ivars == <<ipc, message, all_chunks, batch_no, attempt, attempt_log, sleeps,
           out_lines, embeddings_file>>
uvars == <<up_result, index_exists, index>>
pvars == <<fvars, ivars, uvars>>
rvars == <<r_request, r_response, r_calls, served>>
vars == <<cvars, dvars, pvars, rvars>>

\* Python's None, and a file or key that does not exist.
None == "None"

Min(a, b) == IF a < b THEN a ELSE b

(***************************************************************************)
(* chunker.py                                                              *)
(***************************************************************************)

\* Bounds of the chunk_text inputs.
MaxLen == 5
MaxSize == 4
Chars == {"a", "b"}

RECURSIVE Texts(_)
Texts(n) ==
    IF n = 0 THEN {""}
    ELSE LET shorter == Texts(n - 1)
         IN  shorter \cup {t \o c : t \in {s \in shorter : Len(s) = n - 1}, c \in Chars}

\* text[start:end] of Python, for 0 <= start <= end.
Slice(t, start, end) == SubSeq(t, start + 1, Min(end, Len(t)))

\* One pass of the while loop of chunk_text, from offset start.
RECURSIVE chunk_loop(_, _, _, _)
chunk_loop(t, sz, ov, start) ==
    IF start < Len(t)
    THEN LET end == start + sz
             nxt == IF end - ov < 0 THEN 0 ELSE end - ov
         IN  <<Slice(t, start, end)>> \o chunk_loop(t, sz, ov, nxt)
    ELSE <<>>

\* The loop with start = end: the window advances without overlap.
chunk_text_no_overlap(t, sz, ov) == chunk_loop(t, sz, 0, 0)

chunk_text(t, sz, ov) == chunk_loop(t, sz, ov, 0)

InitChunk ==
    /\ text \in Texts(MaxLen)
    /\ size \in 1..MaxSize
    /\ overlap \in 0..(size - 1)
    /\ chunks = <<>>
    /\ chunked = FALSE

ChunkText ==
    /\ ~chunked
    /\ chunks' = chunk_text(text, size, overlap)
    /\ chunked' = TRUE
    /\ UNCHANGED <<text, size, overlap, dvars, pvars, rvars>>


(***************************************************************************)
(* change_detector.py                                                      *)
(***************************************************************************)

\* Bounds of the detector's environment: the contents a snapshot can take,
\* the number of snapshot writes and deletions, the number of failing runs.
MaxContent == 2
MaxEdits == 3
MaxAborts == 2

\* The *.html files raw_data/ can hold, and their possible contents.
Names == {"a.html", "b.html"}
Contents == {"html" \o ToString(i) : i \in 1..MaxContent}

\* A dict with no key (an absent STATE_FILE loads as {}).
EmptyDict == [k \in {} |-> None]
\* dict.get(k) and d[k] = v.
Get(d, k) == IF k \in DOMAIN d THEN d[k] ELSE None
Put(d, k, v) == [x \in DOMAIN d \cup {k} |-> IF x = k THEN v ELSE d[x]]

\* SHA-256 hex digest of a file's bytes: distinct contents, distinct digests.
file_hash(c) == "sha256:" \o c

\* glob(RAW_DIR/*.html): the files present, in an order the OS chooses.
Present == {n \in Names : raw_data[n] # None}
Orders(S) == {o \in [1..Cardinality(S) -> S] : \A i, j \in DOMAIN o : o[i] = o[j] => i = j}

\* The changelog entry run() builds (detected_at, which nothing reads, left out).
Entry(name, old, h) == [file |-> name, old_hash |-> old, new_hash |-> h]

\* The loop body without "state[name] = h".
loop_body_keeps_old(files, i, acc) ==
    LET name == files[i]
        h == file_hash(raw_data[name])
        old == Get(acc.state, name)
    IN  IF old # h
        THEN [state |-> acc.state,
              logs |-> Append(acc.logs, Entry(name, old, h)),
              changed |-> TRUE]
        ELSE acc

\* The body of the for loop of run(), for the file at position i.
loop_body(files, i, acc) ==
    LET name == files[i]
        h == file_hash(raw_data[name])
        old == Get(acc.state, name)
    IN  IF old # h
        THEN [state |-> Put(acc.state, name, h),
              logs |-> Append(acc.logs, Entry(name, old, h)),
              changed |-> TRUE]
        ELSE acc

\* The for loop of run() over files[1..upto]; append_changelog rewrites
\* CHANGELOG at every change, so acc.logs is the file's content.
RECURSIVE run_loop(_, _, _)
run_loop(files, upto, acc) ==
    IF upto = 0 THEN acc
    ELSE loop_body(files, upto, run_loop(files, upto - 1, acc))

\* run() without its save_state call: the changelog is written, the
\* hash-record store never is.
run_never_saves(files, failAt) ==
    IF files = <<>>
    THEN [state_file |-> state_file, changelog |-> changelog, outcome |-> "no_snapshots"]
    ELSE LET upto == IF failAt > 0 THEN failAt - 1 ELSE Len(files)
             acc == run_loop(files, upto, [state |-> state_file, logs |-> changelog, changed |-> FALSE])
         IN  [state_file |-> state_file,
              changelog |-> acc.logs,
              outcome |-> IF failAt > 0 THEN "raised" ELSE "no_changes"]

\* run(): files is the glob result; failAt = 0 when every file is readable,
\* else the position of the first file whose file_hash raises.
run(files, failAt) ==
    LET start == [state |-> state_file, logs |-> changelog, changed |-> FALSE]
    IN  IF files = <<>>
        THEN [state_file |-> state_file, changelog |-> changelog, outcome |-> "no_snapshots"]
        ELSE IF failAt > 0
        THEN [state_file |-> state_file,
              changelog |-> run_loop(files, failAt - 1, start).logs,
              outcome |-> "raised"]
        ELSE LET acc == run_loop(files, Len(files), start)
             IN  [state_file |-> IF acc.changed THEN acc.state ELSE state_file,
                  changelog |-> acc.logs,
                  outcome |-> IF acc.changed THEN "updated" ELSE "no_changes"]

InitDetector ==
    /\ raw_data = [n \in Names |-> None]
    /\ state_file = EmptyDict
    /\ changelog = <<>>
    /\ phase = "dirty"
    /\ edits = 0
    /\ aborts = 0

\* fetcher.save_snapshot creates or overwrites a snapshot with new content.
WriteSnapshot ==
    /\ edits < MaxEdits
    /\ \E n \in Names, c \in Contents :
         /\ raw_data[n] # c
         /\ raw_data' = [raw_data EXCEPT ![n] = c]
    /\ edits' = edits + 1
    /\ phase' = "dirty"
    /\ UNCHANGED <<state_file, changelog, aborts, cvars, pvars, rvars>>

\* A snapshot is removed from raw_data/.
DeleteSnapshot ==
    /\ edits < MaxEdits
    /\ \E n \in Present : raw_data' = [raw_data EXCEPT ![n] = None]
    /\ edits' = edits + 1
    /\ phase' = "dirty"
    /\ UNCHANGED <<state_file, changelog, aborts, cvars, pvars, rvars>>

\* run() returns.  phase: "ran" after a completed run, "reran" after a
\* completed run that followed a completed run with no snapshot touched.
DetectorRun ==
    /\ \E files \in Orders(Present) :
         LET r == run(files, 0)
         IN  /\ state_file' = r.state_file
             /\ changelog' = r.changelog
    /\ phase' = IF phase \in {"ran", "reran"} THEN "reran" ELSE "ran"
    /\ UNCHANGED <<raw_data, edits, aborts, cvars, pvars, rvars>>

\* run() ends with the I/O error file_hash raised on some file.
DetectorRunRaises ==
    /\ aborts < MaxAborts
    /\ \E files \in Orders(Present) : \E failAt \in 1..Len(files) :
         LET r == run(files, failAt)
         IN  /\ state_file' = r.state_file
             /\ changelog' = r.changelog
    /\ aborts' = aborts + 1
    /\ phase' = "aborted"
    /\ UNCHANGED <<raw_data, edits, cvars, pvars, rvars>>

(***************************************************************************)
(* Strings: file names and identities are built and taken apart as the     *)
(* code does it.                                                           *)
(***************************************************************************)

\* The characters of file names in ASCII order; Ord is a character's rank.
Ascii == "-.0123456789_abcdefghijklmnopqrstuvwxyz"
CharAt(s, i) == SubSeq(s, i, i)
OrdOf == [c \in {CharAt(Ascii, i) : i \in 1..Len(Ascii)} |->
            CHOOSE i \in 1..Len(Ascii) : CharAt(Ascii, i) = c]
Ord(c) == OrdOf[c]

\* Python's str "<" (Path objects of one directory compare by name).
RECURSIVE StrLessFrom(_, _, _)
StrLessFrom(a, b, i) ==
    IF i > Len(b) THEN FALSE
    ELSE IF i > Len(a) THEN TRUE
    ELSE IF CharAt(a, i) = CharAt(b, i) THEN StrLessFrom(a, b, i + 1)
    ELSE Ord(CharAt(a, i)) < Ord(CharAt(b, i))
StrLess(a, b) == StrLessFrom(a, b, 1)

\* sorted(S) for a set of distinct strings.
RECURSIVE Sorted(_)
Sorted(S) ==
    IF S = {} THEN <<>>
    ELSE LET least == CHOOSE x \in S : \A y \in S \ {x} : StrLess(x, y)
         IN  <<least>> \o Sorted(S \ {least})

\* s.rfind("."): the position (from 1) of the last ".", 0 if there is none.
RECURSIVE RFindDotFrom(_, _)
RFindDotFrom(s, i) ==
    IF i = 0 THEN 0 ELSE IF CharAt(s, i) = "." THEN i ELSE RFindDotFrom(s, i - 1)
RFindDot(s) == RFindDotFrom(s, Len(s))

\* s.find("."): the position of the first ".", 0 if there is none.
RECURSIVE FindDotFrom(_, _)
FindDotFrom(s, i) ==
    IF i > Len(s) THEN 0 ELSE IF CharAt(s, i) = "." THEN i ELSE FindDotFrom(s, i + 1)

\* name.rsplit(".", 1)[0]
RSplitBase(name) ==
    IF RFindDot(name) = 0 THEN name ELSE SubSeq(name, 1, RFindDot(name) - 1)

\* The name cut at its first "." (name.split(".")[0]).
stem_first_dot(name) ==
    IF FindDotFrom(name, 1) = 0 THEN name ELSE SubSeq(name, 1, FindDotFrom(name, 1) - 1)

\* pathlib's PurePath.stem: the name without its last suffix.
stem(name) ==
    LET i == RFindDot(name)
    IN  IF 1 < i /\ i < Len(name) THEN SubSeq(name, 1, i - 1) ELSE name

EndsWith(s, suffix) ==
    Len(s) >= Len(suffix) /\ SubSeq(s, Len(s) - Len(suffix) + 1, Len(s)) = suffix

\* Python truthiness of a string-or-None, and "a or b".
Truthy(x) == x # None /\ x # ""
Or(a, b) == IF Truthy(a) THEN a ELSE b

(***************************************************************************)
(* chunker.py: process_file and run_all                                    *)
(***************************************************************************)

\* CHUNK_SIZE = 3000 and OVERLAP = 600 in units of 600 characters: one
\* character of a document of the pipeline stands for 600 of the source.
CHUNK_SIZE == 5
OVERLAP == 1

\* The extracted document of the pipeline and the number of fragments its
\* text can have.
DocFile == "capri.it_en.txt"
MaxFrags == 33
\* The number of fragments of a text that is edited between chunker runs.
MaxDocFrags == 5
\* The stretch of text that starts fragment i: "<00>", "<01>", ...
\* (Len(Unit(i)) is the step CHUNK_SIZE - OVERLAP of the window).
Unit(i) == "<" \o (IF i < 10 THEN "0" ELSE "") \o ToString(i) \o ">"
\* The "<!-- source: ... -->" line extractor.process_file writes before the
\* cleaned text: the file it leaves is never empty, so fragment 0 always is.
Header == Unit(0)
\* A cleaned text of m further stretches.
RECURSIVE CleanText(_)
CleanText(m) == IF m = 0 THEN "" ELSE CleanText(m - 1) \o Unit(m)
\* The file extractor.process_file writes for a cleaned text: header, then
\* text.  DocText(n), n >= 1, is the file chunk_text cuts into n fragments.
extracted_file(clean) == Header \o clean
DocText(n) == extracted_file(CleanText(n - 1))

\* The JSON object process_file dumps for fragment i (from 0) of a document
\* (generated_at, a timestamp nothing reads, left out).
Meta(base, i, c) ==
    [chunk_id |-> base \o "__chunk" \o ToString(i),
     source |-> base,
     chunk_index |-> i,
     fetch_date |-> None,
     text |-> c]

\* open(path, "w") and json.dump: the file is created or replaced.
WriteFile(dir, name, obj) == Put(dir, name, obj)

\* The for loop of process_file from fragment i (from 1) on: one file per
\* fragment, named by its chunk_id.
RECURSIVE write_chunks(_, _, _, _)
write_chunks(dir, base, cs, i) ==
    IF i > Len(cs) THEN dir
    ELSE LET meta == Meta(base, i - 1, cs[i])
         IN  write_chunks(WriteFile(dir, meta.chunk_id \o ".json", meta), base, cs, i + 1)

\* process_file(path): CHUNKS_DIR after it, for the document's text t.
process_file(dir, name, t) ==
    write_chunks(dir, RSplitBase(name), chunk_text(t, CHUNK_SIZE, OVERLAP), 1)

\* run_all(): every extracted/*.txt goes through process_file.
RECURSIVE run_all(_, _)
run_all(dir, todo) ==
    IF todo = {} THEN dir
    ELSE LET name == CHOOSE n \in todo : TRUE
         IN  run_all(process_file(dir, name, extracted[name]), todo \ {name})

\* extractor.run_all() over raw_data/ holding the document's one snapshot:
\* process_file rewrites its text file, and the text grows or shrinks.
EditDocument ==
    /\ \E n \in 1..MaxDocFrags :
         /\ extracted[DocFile] # DocText(n)
         /\ extracted' = [extracted EXCEPT ![DocFile] = DocText(n)]
    /\ chunker_done' = FALSE
    /\ UNCHANGED <<chunks_dir, openai_key, pinecone_key, ivars, uvars, cvars, dvars, rvars>>

\* run_all() returns.  chunker_done: the chunker has run over the extracted
\* texts as they are now.
ChunkerRun ==
    /\ ipc # "embedding"
    /\ ~chunker_done
    /\ chunks_dir' = run_all(chunks_dir, {n \in DOMAIN extracted : EndsWith(n, ".txt")})
    /\ chunker_done' = TRUE
    /\ UNCHANGED <<extracted, openai_key, pinecone_key, ivars, uvars, cvars, dvars, rvars>>

(***************************************************************************)
(* ingest.py                                                               *)
(***************************************************************************)

BATCH_SIZE == 16
MAX_RETRIES == 6
INITIAL_BACKOFF == 1

\* OUT_FILE: absent, or the records of its lines.
NoFile == [exists |-> FALSE, lines |-> <<>>]
File(lines) == [exists |-> TRUE, lines |-> lines]

\* find_chunk_files: sorted(directory.glob("*.json"))
find_chunk_files(dir) == Sorted({f \in DOMAIN dir : EndsWith(f, ".json")})

\* read_chunk_file for a file holding one JSON object without a "chunks"
\* list, which is what every file process_file writes holds: the first
\* truthy of text/content/body/page_text, and id, url or the path's stem.
read_chunk_file(name, raw) ==
    LET t == Or(Or(Or(Get(raw, "text"), Get(raw, "content")), Get(raw, "body")), Get(raw, "page_text"))
    IN  IF Truthy(t)
        THEN <<[id |-> Or(Or(Get(raw, "id"), Get(raw, "url")), stem(name)), text |-> t]>>
        ELSE <<>>

\* all_chunks: the items of every chunk file, in the order of the files.
RECURSIVE read_all(_, _, _)
read_all(dir, files, i) ==
    IF i > Len(files) THEN <<>>
    ELSE read_chunk_file(files[i], dir[files[i]]) \o read_all(dir, files, i + 1)

\* batches(lst, n): the b-th slice (from 1), and how many there are.
Batch(lst, b) == SubSeq(lst, (b - 1) * BATCH_SIZE + 1, Min(b * BATCH_SIZE, Len(lst)))
NumBatches(lst) == (Len(lst) + BATCH_SIZE - 1) \div BATCH_SIZE

\* The vector the embedding service returns for a text.
Embedding(t) == <<"embedding", t>>

\* out_obj of main() for an item and its vector.
out_obj(item) ==
    [id |-> Or(Or(Get(item, "id"), Get(item, "url")), ""),
     text |-> item.text,
     embedding |-> Embedding(item.text)]
OutObjs(batch) == [i \in 1..Len(batch) |-> out_obj(batch[i])]

\* What client.embeddings.create can raise: an OpenAIError with its message
\* and attributes, or another exception.  http_status 0: no such attribute.
RateLimitError == [kind |-> "rate_limit", openai |-> TRUE, rate_limit_in_msg |-> TRUE, quota_in_msg |-> FALSE,
                   http_status |-> 0, retryable |-> FALSE]
RetryableError == [kind |-> "retryable", openai |-> TRUE, rate_limit_in_msg |-> FALSE, quota_in_msg |-> FALSE,
                   http_status |-> 0, retryable |-> TRUE]
QuotaError == [kind |-> "quota", openai |-> TRUE, rate_limit_in_msg |-> FALSE, quota_in_msg |-> TRUE,
               http_status |-> 402, retryable |-> FALSE]
OtherException == [kind |-> "exception", openai |-> FALSE, rate_limit_in_msg |-> FALSE, quota_in_msg |-> FALSE,
                   http_status |-> 0, retryable |-> FALSE]
Failures == {RateLimitError, RetryableError, QuotaError, OtherException}
Success == [kind |-> "ok", openai |-> FALSE, rate_limit_in_msg |-> FALSE, quota_in_msg |-> FALSE,
            http_status |-> 200, retryable |-> FALSE]

is_rate(e) == e.rate_limit_in_msg \/ e.http_status = 429

RECURSIVE Pow2(_)
Pow2(n) == IF n = 0 THEN 1 ELSE 2 * Pow2(n - 1)

\* backoff = INITIAL_BACKOFF * (attempt + 1): linear instead of doubling.
backoff_linear(att) == INITIAL_BACKOFF * (att + 1)

\* backoff = INITIAL_BACKOFF * (2 ** attempt)
backoff(att) == INITIAL_BACKOFF * Pow2(att)

\* The except branch of embed_texts: sleep and continue, or raise.
retries(att, e) ==
    /\ e.openai
    /\ att + 1 < MAX_RETRIES
    /\ (is_rate(e) \/ e.retryable)

\* main() up to the first batch: the credential, the chunk files, the items.
IngestStart ==
    /\ ipc = "idle"
    /\ batch_no' = 1
    /\ attempt' = 0
    /\ attempt_log' = <<>>
    /\ sleeps' = <<>>
    /\ out_lines' = <<>>
    /\ IF ~openai_key
       THEN /\ message' = "no_api_key"
            /\ ipc' = "returned"
            /\ all_chunks' = <<>>
       ELSE LET chunk_files == find_chunk_files(chunks_dir)
                items == read_all(chunks_dir, chunk_files, 1)
            IN  IF chunk_files = <<>>
                THEN /\ message' = "no_chunk_files"
                     /\ ipc' = "returned"
                     /\ all_chunks' = <<>>
                ELSE IF items = <<>>
                THEN /\ message' = "no_text_chunks"
                     /\ ipc' = "returned"
                     /\ all_chunks' = <<>>
                ELSE /\ message' = "creating_embeddings"
                     /\ ipc' = "embedding"
                     /\ all_chunks' = items
    /\ UNCHANGED <<embeddings_file, fvars, uvars, cvars, dvars, rvars>>

\* attempt_log and sleeps describe the calls for one batch: they restart
\* with the first call for the next batch.
LogSoFar == IF attempt = 0 THEN <<>> ELSE attempt_log
SleepsSoFar == IF attempt = 0 THEN <<>> ELSE sleeps

\* client.embeddings.create returns the vectors of the batch: main() adds
\* one record per item, and after the last batch writes OUT_FILE.
EmbedSucceeds ==
    /\ ipc = "embedding"
    /\ attempt_log' = Append(LogSoFar, Success.kind)
    /\ sleeps' = SleepsSoFar
    /\ attempt' = 0
    /\ out_lines' = out_lines \o OutObjs(Batch(all_chunks, batch_no))
    /\ IF batch_no = NumBatches(all_chunks)
       THEN /\ embeddings_file' = File(out_lines')
            /\ ipc' = "done"
            /\ message' = "completed"
            /\ batch_no' = batch_no
       ELSE /\ batch_no' = batch_no + 1
            /\ UNCHANGED <<embeddings_file, ipc, message>>
    /\ UNCHANGED <<all_chunks, fvars, uvars, cvars, dvars, rvars>>

\* The call raises and embed_texts sleeps and goes round the loop again
\* (retries leaves an attempt to go round to, so the loop never runs out).
EmbedFailsRetries ==
    /\ ipc = "embedding"
    /\ \E e \in Failures :
         /\ retries(attempt, e)
         /\ attempt_log' = Append(LogSoFar, e.kind)
         /\ sleeps' = Append(SleepsSoFar, backoff(attempt))
    /\ attempt' = attempt + 1
    /\ UNCHANGED <<ipc, message, all_chunks, batch_no, out_lines, embeddings_file,
                   fvars, uvars, cvars, dvars, rvars>>

\* The call raises and embed_texts raises: main() prints the error and
\* returns, before the code that writes OUT_FILE.
EmbedFailsRaises ==
    /\ ipc = "embedding"
    /\ \E e \in Failures :
         /\ ~retries(attempt, e)
         /\ attempt_log' = Append(LogSoFar, e.kind)
    /\ sleeps' = SleepsSoFar
    /\ ipc' = "aborted"
    /\ message' = "embedding_error"
    /\ UNCHANGED <<all_chunks, batch_no, attempt, out_lines, embeddings_file,
                   fvars, uvars, cvars, dvars, rvars>>

(***************************************************************************)
(* upsert_pinecone.py                                                      *)
(***************************************************************************)

UPSERT_BATCH_SIZE == 100

Request(op, vectors) == [op |-> op, vectors |-> vectors]

\* zip(ids, embeds, metas) of one batch of the embeddings file.
Triples(batch) ==
    [i \in 1..Len(batch) |->
        [id |-> batch[i].id, values |-> batch[i].embedding, metadata |-> [text |-> batch[i].text]]]

\* The upsert requests for vectors[from..], one per batch_size records.
RECURSIVE upsert_loop(_, _)
upsert_loop(vectors, from) ==
    IF from > Len(vectors) THEN <<>>
    ELSE <<Request("upsert", Triples(SubSeq(vectors, from, Min(from + UPSERT_BATCH_SIZE - 1, Len(vectors)))))>>
         \o upsert_loop(vectors, from + UPSERT_BATCH_SIZE)

\* The index after the upsert requests reqs[i..].
RECURSIVE Upserted(_, _, _)
Upserted(idx, ts, i) ==
    IF i > Len(ts) THEN idx
    ELSE Upserted(Put(idx, ts[i].id, [values |-> ts[i].values, metadata |-> ts[i].metadata]), ts, i + 1)
RECURSIVE AfterRequests(_, _, _)
AfterRequests(idx, reqs, i) ==
    IF i > Len(reqs) THEN idx
    ELSE AfterRequests(Upserted(idx, reqs[i].vectors, 1), reqs, i + 1)

\* The script from top to bottom: the requests it sends to the vector
\* database in order, and the error that ends it ("none": it completes).
\* Pinecone(api_key=None) raises a configuration error without a request.
upsert_script ==
    IF ~pinecone_key
    THEN [error |-> "PineconeConfigurationError", requests |-> <<>>,
          index_exists |-> index_exists, index |-> index]
    ELSE LET ensure == <<Request("list_indexes", <<>>)>>
                       \o (IF index_exists THEN <<>> ELSE <<Request("create_index", <<>>)>>)
         IN  IF ~embeddings_file.exists
             THEN [error |-> "FileNotFoundError", requests |-> ensure,
                   index_exists |-> TRUE, index |-> index]
             ELSE LET upserts == upsert_loop(embeddings_file.lines, 1)
                  IN  [error |-> "none", requests |-> ensure \o upserts,
                       index_exists |-> TRUE, index |-> AfterRequests(index, upserts, 1)]

UpserterRun ==
    /\ ipc # "embedding"
    /\ up_result.error = "not_run"
    /\ LET r == upsert_script
       IN  /\ up_result' = [error |-> r.error, requests |-> r.requests]
           /\ index_exists' = r.index_exists
           /\ index' = r.index
    /\ UNCHANGED <<fvars, ivars, cvars, dvars, rvars>>

InitPipeline ==
    /\ \E n \in 1..MaxFrags : extracted = [f \in {DocFile} |-> DocText(n)]
    /\ chunks_dir = EmptyDict
    /\ chunker_done = FALSE
    /\ openai_key \in BOOLEAN
    /\ pinecone_key \in BOOLEAN
    /\ ipc = "idle"
    /\ message = ""
    /\ all_chunks = <<>>
    /\ batch_no = 1
    /\ attempt = 0
    /\ attempt_log = <<>>
    /\ sleeps = <<>>
    /\ out_lines = <<>>
    /\ embeddings_file = NoFile
    /\ up_result = [error |-> "not_run", requests |-> <<>>]
    /\ index_exists = FALSE
    /\ index = EmptyDict

(***************************************************************************)
(* retriever_api.py                                                        *)
(***************************************************************************)

\* Bound on the number of requests served.
MaxRequests == 6

\* JSON values of a request body, and a key that is not in the body.
JStr(str) == [t |-> "string", s |-> str, n |-> 0]
JInt(num) == [t |-> "number", s |-> "", n |-> num]
JNull == [t |-> "null", s |-> "", n |-> 0]
Absent == [t |-> "absent", s |-> "", n |-> 0]

\* Vertical tab, next line (U+0085) and no-break space (U+00A0), which have
\* no escape in a string.
VT == ""
NEL == ""
NBSP == " "

QChoices == {Absent, JNull, JStr(""), JStr("sea"), JInt(0), JInt(7)}
KChoices ==
    {Absent, JInt(1), JInt(2), JNull,
     JStr("2"), JStr("abc"), JStr("-1"), JStr(" 2"), JStr("2 "), JStr("1_0"), JStr("1__0"), JStr("+"),
     JStr("\f2"), JStr("2" \o NBSP)}
Body(qv, kv) ==
    [key \in {x \in {"q", "k"} : (x = "q" /\ qv # Absent) \/ (x = "k" /\ kv # Absent)} |->
        IF key = "q" THEN qv ELSE kv]

\* body.get(key, default)
BodyGet(body, key, default) == IF key \in DOMAIN body THEN body[key] ELSE default

\* int(str): surrounding whitespace is stripped, then an optional sign, then
\* decimal digits, with single underscores allowed between digits.
Digits == "0123456789"
IsDigit(c) == \E i \in 1..Len(Digits) : CharAt(Digits, i) = c
DigitVal(c) == (CHOOSE i \in 1..Len(Digits) : CharAt(Digits, i) = c) - 1
\* The whitespace int() skips, among the characters a string of the module
\* can hold (U+0000..U+00FF): tab, line feed, vertical tab, form feed,
\* carriage return, space, next line (U+0085), no-break space (U+00A0).
IsSpace(c) == c \in {" ", "\t", "\n", VT, "\f", "\r", NEL, NBSP}
RECURSIVE LStrip(_)
LStrip(str) ==
    IF Len(str) > 0 /\ IsSpace(CharAt(str, 1)) THEN LStrip(SubSeq(str, 2, Len(str))) ELSE str
RECURSIVE RStrip(_)
RStrip(str) ==
    IF Len(str) > 0 /\ IsSpace(CharAt(str, Len(str))) THEN RStrip(SubSeq(str, 1, Len(str) - 1)) ELSE str
Strip(str) == RStrip(LStrip(str))
HasSign(str) == Len(str) > 0 /\ CharAt(str, 1) \in {"+", "-"}
Unsigned(str) == IF HasSign(str) THEN SubSeq(str, 2, Len(str)) ELSE str
\* Digits, each underscore with a digit on either side.
IsDecimal(str) ==
    /\ Len(str) > 0
    /\ \A i \in 1..Len(str) :
         \/ IsDigit(CharAt(str, i))
         \/ /\ CharAt(str, i) = "_"
            /\ 1 < i /\ i < Len(str)
            /\ IsDigit(CharAt(str, i - 1))
            /\ IsDigit(CharAt(str, i + 1))
RECURSIVE DecimalValue(_, _)
DecimalValue(str, upto) ==
    IF upto = 0 THEN 0
    ELSE IF CharAt(str, upto) = "_" THEN DecimalValue(str, upto - 1)
    ELSE 10 * DecimalValue(str, upto - 1) + DigitVal(CharAt(str, upto))

\* int(v): the integer, or the exception int() raises.
int(v) ==
    IF v.t = "number" THEN [raised |-> "", value |-> v.n]
    ELSE IF v.t = "string"
    THEN LET body == Strip(v.s)
             digits == Unsigned(body)
             magnitude == DecimalValue(digits, Len(digits))
         IN  IF IsDecimal(digits)
             THEN [raised |-> "", value |-> IF HasSign(body) /\ CharAt(body, 1) = "-"
                                            THEN 0 - magnitude ELSE magnitude]
             ELSE [raised |-> "ValueError", value |-> 0]
    ELSE [raised |-> "TypeError", value |-> 0]

\* "not q" for a JSON value.
Falsy(v) == v.t = "null" \/ (v.t = "string" /\ v.s = "") \/ (v.t = "number" /\ v.n = 0)

\* The vector index's answer to a query: its matches in ranking order.
Ranked ==
    <<[id |-> "capri.it_en__chunk0", score |-> 91, metadata |-> [text |-> "<00><"]],
      [id |-> "capri.it_en__chunk1", score |-> 47, metadata |-> [text |-> "<01>"]]>>
TopK(k) == SubSeq(Ranked, 1, Min(k, Len(Ranked)))
\* What index.query(top_k = k) can do: raise, or return matches; the best k
\* of them when k >= 1, and whatever the service makes of a k below 1.
IndexAnswers(k) ==
    {[raised |-> TRUE, matches |-> <<>>]}
    \cup {[raised |-> FALSE, matches |-> SubSeq(Ranked, 1, j)] :
              j \in IF k >= 1 THEN {Min(k, Len(Ranked))} ELSE 0..Len(Ranked)}

\* What one request leads to: the HTTP response, and the calls the handler
\* made to the embedding service and the vector index.
Handled(status, error, query, results, calls) ==
    [response |-> [status |-> status, error |-> error, query |-> query, results |-> results],
     calls |-> calls]

\* retrieve(): k is converted before q is looked at; an exception in the
\* handler is Flask's 500 response.  The body of a 200 response carries q as
\* it came, whatever its JSON type; the other bodies have no query (Absent).  embed_ok: the embedding call returns;
\* answer: what the index does with the query.
retrieve(body, embed_ok, answer) ==
    LET q == BodyGet(body, "q", JStr(""))
        k == int(BodyGet(body, "k", JInt(5)))
    IN  IF k.raised # ""
        THEN Handled(500, k.raised, Absent, <<>>, <<>>)
        ELSE IF Falsy(q)
        THEN Handled(400, "missing 'q' parameter", Absent, <<>>, <<>>)
        ELSE IF ~embed_ok
        THEN Handled(500, "OpenAIError", Absent, <<>>, <<"embeddings.create">>)
        ELSE IF answer.raised
        THEN Handled(500, "PineconeException", Absent, <<>>, <<"embeddings.create", "index.query">>)
        ELSE Handled(200, "", q, answer.matches, <<"embeddings.create", "index.query">>)

InitRetrieve ==
    /\ r_request = Body(Absent, Absent)
    /\ r_response = [status |-> 0, error |-> "", query |-> Absent, results |-> <<>>]
    /\ r_calls = <<>>
    /\ served = 0

\* One POST /retrieve request, handled to its response.
Retrieve ==
    /\ served < MaxRequests
    /\ \E qv \in QChoices, kv \in KChoices, embed_ok \in BOOLEAN :
         \E answer \in IndexAnswers(int(BodyGet(Body(qv, kv), "k", JInt(5))).value) :
             LET handled == retrieve(Body(qv, kv), embed_ok, answer)
             IN  /\ r_request' = Body(qv, kv)
                 /\ r_response' = handled.response
                 /\ r_calls' = handled.calls
    /\ served' = served + 1
    /\ UNCHANGED <<cvars, dvars, pvars>>

(***************************************************************************)
(* Specifications                                                          *)
(***************************************************************************)

\* Each script is checked on its own: the other parts of the state rest.
IdleChunk == text = "" /\ size = 1 /\ overlap = 0 /\ chunks = <<>> /\ chunked = FALSE
IdleDetector == InitDetector
IdlePipeline ==
    /\ InitPipeline
    /\ extracted = [f \in {DocFile} |-> DocText(1)]
    /\ ~openai_key
    /\ ~pinecone_key
IdleRetrieve == InitRetrieve

NextChunk == ChunkText
StartChunk == InitChunk /\ IdleDetector /\ IdlePipeline /\ IdleRetrieve
SpecChunk == StartChunk /\ [][NextChunk]_vars

NextDetector ==
    \/ WriteSnapshot
    \/ DeleteSnapshot
    \/ DetectorRun
    \/ DetectorRunRaises
StartDetector == IdleChunk /\ InitDetector /\ IdlePipeline /\ IdleRetrieve
SpecDetector == StartDetector /\ [][NextDetector]_vars

NextPipeline ==
    \/ ChunkerRun
    \/ IngestStart
    \/ EmbedSucceeds
    \/ EmbedFailsRetries
    \/ EmbedFailsRaises
    \/ UpserterRun
StartPipeline == IdleChunk /\ IdleDetector /\ InitPipeline /\ IdleRetrieve
SpecPipeline == StartPipeline /\ [][NextPipeline]_vars

\* The chunker run again and again over a document that is edited in between.
NextRechunk ==
    \/ EditDocument
    \/ ChunkerRun
StartRechunk ==
    /\ IdleChunk /\ IdleDetector /\ InitPipeline /\ IdleRetrieve
    /\ ~openai_key
    /\ ~pinecone_key
    /\ \E n \in 1..MaxDocFrags : extracted[DocFile] = DocText(n)
SpecRechunk == StartRechunk /\ [][NextRechunk]_vars

NextRetrieve == Retrieve
StartRetrieve == IdleChunk /\ IdleDetector /\ IdlePipeline /\ InitRetrieve
SpecRetrieve == StartRetrieve /\ [][NextRetrieve]_vars

(***************************************************************************)
(* Claims                                                                  *)
(***************************************************************************)

CeilDiv(a, b) == (a + b - 1) \div b

\* C1: chunk_text(T, W, O) returns 0 fragments when L = 0, 1 fragment when
\* 0 < L <= O, and ceil((L-O)/(W-O)) fragments when L > O; a text of exactly
\* W characters is returned as one fragment equal to the whole text.
C1_FragmentCount ==
    chunked =>
        LET L == Len(text)
        IN  /\ Len(chunks) = IF L = 0 THEN 0
                             ELSE IF L <= overlap THEN 1
                             ELSE CeilDiv(L - overlap, size - overlap)
            /\ L = size => chunks = <<text>>

\* Fragments joined in index order, every fragment but the first without
\* its first n characters (c[n:] of Python).
DropFirst(c, n) == SubSeq(c, n + 1, Len(c))
RECURSIVE JoinFrom(_, _, _)
JoinFrom(cs, i, n) ==
    IF i > Len(cs) THEN ""
    ELSE (IF i = 1 THEN cs[i] ELSE DropFirst(cs[i], n)) \o JoinFrom(cs, i + 1, n)

\* C2: the fragments of chunk_text(T, W, O), each after the first trimmed of
\* its first O characters, concatenate to T exactly.
C2_Reconstructs == chunked => JoinFrom(chunks, 1, overlap) = text

\* Several fragments with a real overlap, the last one shorter than the overlap.
C2_Witness ==
    /\ chunked
    /\ overlap > 0
    /\ Len(chunks) >= 3
    /\ Len(chunks[Len(chunks)]) <= overlap
    /\ JoinFrom(chunks, 1, overlap) = text

\* C3: a detector run that follows a completed run, with no snapshot added,
\* removed or modified in between, appends nothing to the changelog.
C3_Idempotent == [][(phase \in {"ran", "reran"}) => (changelog' = changelog)]_vars

\* A second run has completed after a run that logged changes.
C3_Witness == phase = "reran" /\ Len(changelog) >= 2 /\ Present # {}

\* C4 as stated: after a completed run the hash-record store has exactly
\* the present snapshot files as keys, each with the file's current digest.
C4_ExactlyPresent ==
    phase \in {"ran", "reran"} =>
        /\ DOMAIN state_file = Present
        /\ \A n \in Present : state_file[n] = file_hash(raw_data[n])

\* C4 amended: after a completed run every present snapshot file has an
\* entry equal to its current digest (entries of removed files are kept).
C4_PresentRecorded ==
    phase \in {"ran", "reran"} =>
        \A n \in Present : n \in DOMAIN state_file /\ state_file[n] = file_hash(raw_data[n])

\* A completed run has recorded a present file while the entry of a file
\* deleted since an earlier run remains.
C4_Witness ==
    /\ phase = "ran"
    /\ \E n \in Present : Get(state_file, n) = file_hash(raw_data[n])
    /\ \E n \in DOMAIN state_file : n \notin Present
    /\ Len(changelog) >= 2

\* new_hash of the last entry for file f among logs[1..i], None if none.
RECURSIVE LastHash(_, _, _)
LastHash(logs, i, f) ==
    IF i = 0 THEN None
    ELSE IF logs[i].file = f THEN logs[i].new_hash
    ELSE LastHash(logs, i - 1, f)

\* C10: the changelog entries of each file form a chain: the first has
\* old_hash null, every later one has the previous entry's new_hash as old_hash.
C10_Chain ==
    \A i \in DOMAIN changelog :
        changelog[i].old_hash = LastHash(changelog, i - 1, changelog[i].file)

\* The batch attempt_log and sleeps are about: the one being embedded, or
\* the one whose call has just returned.
LoggedBatch ==
    IF ipc = "embedding" /\ attempt = 0 /\ attempt_log # <<>> THEN batch_no - 1 ELSE batch_no
RetryableKinds == {RateLimitError.kind, RetryableError.kind}
Records(lines, id) == {j \in DOMAIN lines : lines[j].id = id}

\* C5: for one batch the embedding service is called at most 6 times; the
\* n-th retryable failure, n < 6, is followed by a sleep of 2^(n-1) (1, 2,
\* 4, 8, 16); there is no sleep after a success or after a 6th failure; two
\* rate-limit failures then a success give the sleeps 1 then 2 and one
\* Embedding Record per item of the batch, and a completed run has written
\* one record per item.
C5_RetryBackoff ==
    /\ Len(attempt_log) <= MAX_RETRIES
    /\ \A i \in DOMAIN sleeps :
         /\ sleeps[i] = Pow2(i - 1)
         /\ i < MAX_RETRIES
         /\ attempt_log[i] \in RetryableKinds
    /\ \A i \in DOMAIN attempt_log :
         (attempt_log[i] \in RetryableKinds /\ i < MAX_RETRIES) => i \in DOMAIN sleeps
    /\ attempt_log = <<RateLimitError.kind, RateLimitError.kind, Success.kind>> =>
         /\ sleeps = <<1, 2>>
         /\ LET batch == Batch(all_chunks, LoggedBatch)
            IN  \A i \in DOMAIN batch : Cardinality(Records(out_lines, batch[i].id)) = 1
    /\ ipc = "done" =>
         /\ embeddings_file.exists
         /\ \A i \in DOMAIN all_chunks :
              Cardinality(Records(embeddings_file.lines, all_chunks[i].id)) = 1

\* The second batch has been embedded at the third attempt, after two
\* rate-limit failures.
C5_Witness ==
    /\ attempt_log = <<RateLimitError.kind, RateLimitError.kind, Success.kind>>
    /\ sleeps = <<1, 2>>
    /\ LoggedBatch = 2
    /\ Len(out_lines) = Len(all_chunks)
    /\ ipc = "done"

\* C6: when the run aborts on batch k, the records of batches 1..k-1 are in
\* the output embeddings store and no record of batch k or a later one is.
C6_FlushedBatchesRemain ==
    ipc = "aborted" =>
        /\ \A i \in DOMAIN out_lines :
             \E j \in DOMAIN embeddings_file.lines : embeddings_file.lines[j] = out_lines[i]
        /\ \A i \in DOMAIN all_chunks :
             i > (batch_no - 1) * BATCH_SIZE =>
                 Records(embeddings_file.lines, all_chunks[i].id) = {}

\* C7: a request whose q is missing or "" gets 400 with the error body,
\* whatever k is, and neither the embedding service nor the index is called.
C7_EmptyQueryRejected ==
    (served > 0 /\ BodyGet(r_request, "q", JStr("")) = JStr("")) =>
        /\ r_response.status = 400
        /\ r_response.error = "missing 'q' parameter"
        /\ r_calls = <<>>

\* C8: when ingest or the upserter ends on a configuration error (missing
\* credential, no chunk files, no embeddings file), no request has been sent
\* to the embedding service or to the vector database.
C8_ConfigErrorBeforeRequests ==
    /\ message \in {"no_api_key", "no_chunk_files"} => attempt_log = <<>>
    /\ up_result.error \in {"PineconeConfigurationError", "FileNotFoundError"} =>
         up_result.requests = <<>>

\* The (id, values, metadata) triples of the upsert requests sent.
SentTriples ==
    UNION {{up_result.requests[i].vectors[j] : j \in 1..Len(up_result.requests[i].vectors)} :
               i \in {r \in DOMAIN up_result.requests : up_result.requests[r].op = "upsert"}}

\* C9: for every fragment file the chunker wrote, a successful ingest run
\* emits exactly one Embedding Record with the fragment's identity as id and
\* the fragment's text, and the upserter sends that id with that text as
\* metadata.text.
C9_IdRoundTrip ==
    /\ ipc = "done" =>
         \A f \in DOMAIN chunks_dir :
             LET same == Records(embeddings_file.lines, chunks_dir[f].chunk_id)
             IN  /\ Cardinality(same) = 1
                 /\ \A j \in same : embeddings_file.lines[j].text = chunks_dir[f].text
    /\ up_result.error = "none" =>
         \A f \in DOMAIN chunks_dir :
             \E t \in SentTriples :
                 /\ t.id = chunks_dir[f].chunk_id
                 /\ t.metadata.text = chunks_dir[f].text

\* Chunker, ingest and upserter have each completed, for a document of more
\* fragments than one batch holds.
C9_Witness ==
    /\ ipc = "done"
    /\ up_result.error = "none"
    /\ Cardinality(DOMAIN chunks_dir) > BATCH_SIZE
    /\ \A f \in DOMAIN chunks_dir : chunks_dir[f].chunk_id \in DOMAIN index

\* The fragment files process_file writes for the document's current text.
CurrentFragmentFiles ==
    LET cs == chunk_text(extracted[DocFile], CHUNK_SIZE, OVERLAP)
    IN  {Meta(RSplitBase(DocFile), i - 1, cs[i]).chunk_id \o ".json" : i \in DOMAIN cs}

\* C11: after a chunker run over a document whose text grew or shrank since
\* earlier runs, the fragment files that the ingest scan of the chunks
\* directory finds are exactly those of the n fragments of the current
\* text: no file of index >= n written by an earlier run remains.
C11_NoStaleFragments ==
    chunker_done =>
        LET scan == find_chunk_files(chunks_dir)
        IN  {scan[i] : i \in DOMAIN scan} = CurrentFragmentFiles

=============================================================================
